---- MODULE Spec2Model ----
(***************************************************************************)
(* The ModSecurity execution reviewer of run.py: a RabbitMQ consumer that  *)
(* looks every inbound event up in the Elasticsearch index                 *)
(* "responser-modsecurity-executions", writes one document or a linked     *)
(* pair of documents with status waiting or duplicated, and republishes    *)
(* first occurrences on the answer queue.                                  *)
(*                                                                         *)
(* Python's None is written None where the field holds a string, NoneObj   *)
(* where it holds a JSON object and NoId where it holds a document id.     *)
(* A JSON text on a queue is represented by the object it encodes.         *)
(* Document ids (_id) are the positions 1, 2, ... of the documents in the  *)
(* index.  The document fields that both writers always set to None        *)
(* (secrule_id, start, anomaly_score, paranoia_level, detail_rule,         *)
(* detail_payload, relationship) are left out of the documents.            *)
(***************************************************************************)
EXTENDS Naturals, Integers, Sequences, FiniteSets, TLC

(***************************************************************************)
(* Bounds of the model.                                                    *)
(***************************************************************************)
\* Number of deliveries the broker makes in one behaviour.
MaxEvents == 3

(***************************************************************************)
(* Program constants.                                                      *)
(***************************************************************************)
\* ELASTICSEARCH_MAX_RESULT: the size of the match_all search and the
\* max_result_window of the index.
ELASTICSEARCH_MAX_RESULT == 2

None == "None"
NoneObj == [none |-> TRUE]
NoId == 0

\* The consumer processes; every instance runs processor().
Instances == {1}

(***************************************************************************)
(* Inbound messages.                                                       *)
(***************************************************************************)
\* The seven values of 'type' that callback has a branch for.
Types ==
  {"full", "onlyRegexAndPayload", "onlyPayload", "onlyIP",
   "onlyIPAndPayload", "onlyIPAndRegex", "onlyRegex"}

\* A value of 'type' that no branch of callback compares with.
OtherType == "onlyHeader"

SourceIps == {"1.2.3.4"}
HashedRules == {"r1"}
HashedPayloads == {"p1"}

\* details with every dimension present.
PresentDetails ==
  [ip : [source_ip : SourceIps],
   hashed_rule : HashedRules,
   hashed_payload : HashedPayloads]

\* details with every dimension null, which the producers' schema allows.
AbsentDetails == [ip |-> NoneObj, hashed_rule |-> None, hashed_payload |-> None]

\* The JSON objects a producer puts on the listen queue: every recognized
\* type with every dimension present or every dimension null, a body of an
\* unrecognized type, and a body whose details is null.
Bodies ==
  [responser_name : {"agent"},
   type : Types,
   details : PresentDetails \cup {AbsentDetails},
   payload : {"GET /"}]
  \cup
  [responser_name : {"agent"},
   type : {OtherType},
   details : PresentDetails,
   payload : {"GET /"}]
  \cup
  [responser_name : {"agent"},
   type : {"onlyIP"},
   details : {NoneObj},
   payload : {"GET /"}]

\* json.dumps of the payload values of the model: a string is quoted.
dumps(payload) == IF payload = None THEN "null" ELSE "\"" \o payload \o "\""

(***************************************************************************)
(* State.                                                                  *)
(***************************************************************************)
VARIABLES
  store,                  \* the documents of the index, in creation order
  answer,                 \* the messages published on the answer queue
  unacked,                \* per instance: the delivered, unacknowledged body
  pc,                     \* per instance: where processor/callback stands
  request_body,           \* callback local
  args,                   \* the arguments of the writer call in progress
  for_ip,                 \* process_double_secrule local: _id of the ip doc
  for_chain,              \* process_double_secrule local: _id of the chain doc
  modsecurity_execution,  \* callback local: the tuple the writer returned
  delivery,               \* per instance: index in hist of its delivery
  hist                    \* history: one entry per delivery

vars ==
  <<store, answer, unacked, pc, request_body, args,
    for_ip, for_chain, modsecurity_execution, delivery, hist>>

NoArgs ==
  [modsec_type |-> None, detail_ip |-> None, detail_hashed_rule |-> None,
   detail_hashed_payload |-> None, status |-> None, writer |-> None]

Init ==
  /\ store = << >>
  /\ answer = << >>
  /\ unacked = [c \in Instances |-> NoneObj]
  /\ pc = [c \in Instances |-> "consume"]
  /\ request_body = [c \in Instances |-> NoneObj]
  /\ args = [c \in Instances |-> NoArgs]
  /\ for_ip = [c \in Instances |-> NoId]
  /\ for_chain = [c \in Instances |-> NoId]
  /\ modsecurity_execution = [c \in Instances |-> << >>]
  /\ delivery = [c \in Instances |-> 0]
  /\ hist = << >>

(***************************************************************************)
(* callback: parsing, search and the seven branches.                       *)
(***************************************************************************)
\* detail_ip_source: None unless details['ip'] is an object.
DetailIpSource(details) ==
  IF details.ip # NoneObj THEN details.ip.source_ip ELSE None

Min(a, b) == IF a <= b THEN a ELSE b

\* The hit lists search(match_all, size) can return: every document while
\* the index holds at most size of them, otherwise size of them; without a
\* sort the index decides which.
Search(docs, size) ==
  {h \in SUBSET (1 .. Len(docs)) : Cardinality(h) = Min(Len(docs), size)}

\* The list comprehension of each branch: per field of the hit's _source,
\* "eq" where it is compared with the event's value and "none" where the
\* branch tests `is None`.
Filter(modsec_type) ==
  CASE modsec_type = "full" ->
         [detail_ip |-> "eq", detail_hashed_rule |-> "eq", detail_hashed_payload |-> "eq"]
    [] modsec_type = "onlyRegexAndPayload" ->
         [detail_ip |-> "none", detail_hashed_rule |-> "eq", detail_hashed_payload |-> "eq"]
    [] modsec_type = "onlyPayload" ->
         [detail_ip |-> "none", detail_hashed_rule |-> "none", detail_hashed_payload |-> "eq"]
    [] modsec_type = "onlyIP" ->
         [detail_ip |-> "eq", detail_hashed_rule |-> "none", detail_hashed_payload |-> "none"]
    [] modsec_type = "onlyIPAndPayload" ->
         [detail_ip |-> "eq", detail_hashed_rule |-> "none", detail_hashed_payload |-> "eq"]
    [] modsec_type = "onlyIPAndRegex" ->
         [detail_ip |-> "eq", detail_hashed_rule |-> "eq", detail_hashed_payload |-> "none"]
    [] modsec_type = "onlyRegex" ->
         [detail_ip |-> "none", detail_hashed_rule |-> "eq", detail_hashed_payload |-> "none"]

Fields == {"detail_ip", "detail_hashed_rule", "detail_hashed_payload"}

\* The values callback holds for the three fields after parsing.
Parsed(details) ==
  [detail_ip |-> DetailIpSource(details),
   detail_hashed_rule |-> details.hashed_rule,
   detail_hashed_payload |-> details.hashed_payload]

\* `[entity for entity in modsecurity_executions if ...].__len__() > 0`
Found(modsec_type, docs, hits, parsed) ==
  \E i \in hits :
    \A f \in Fields :
      IF Filter(modsec_type)[f] = "eq"
        THEN docs[i][f] = parsed[f]
        ELSE docs[i][f] = None

\* Passed with the onlyIP branch passing the event's hashed rule on.
MutPassed(modsec_type) ==
  CASE modsec_type = "full" ->
         [detail_ip |-> "event", detail_hashed_rule |-> "event", detail_hashed_payload |-> "event"]
    [] modsec_type = "onlyRegexAndPayload" ->
         [detail_ip |-> "none", detail_hashed_rule |-> "event", detail_hashed_payload |-> "event"]
    [] modsec_type = "onlyPayload" ->
         [detail_ip |-> "none", detail_hashed_rule |-> "none", detail_hashed_payload |-> "event"]
    [] modsec_type = "onlyIP" ->
         [detail_ip |-> "event", detail_hashed_rule |-> "event", detail_hashed_payload |-> "none"]
    [] modsec_type = "onlyIPAndPayload" ->
         [detail_ip |-> "event", detail_hashed_rule |-> "none", detail_hashed_payload |-> "event"]
    [] modsec_type = "onlyIPAndRegex" ->
         [detail_ip |-> "event", detail_hashed_rule |-> "event", detail_hashed_payload |-> "none"]
    [] modsec_type = "onlyRegex" ->
         [detail_ip |-> "none", detail_hashed_rule |-> "event", detail_hashed_payload |-> "none"]

\* The keyword arguments each branch passes to its writer: per field,
\* "event" where the parsed value is passed and "none" where None is.
Passed(modsec_type) ==
  CASE modsec_type = "full" ->
         [detail_ip |-> "event", detail_hashed_rule |-> "event", detail_hashed_payload |-> "event"]
    [] modsec_type = "onlyRegexAndPayload" ->
         [detail_ip |-> "none", detail_hashed_rule |-> "event", detail_hashed_payload |-> "event"]
    [] modsec_type = "onlyPayload" ->
         [detail_ip |-> "none", detail_hashed_rule |-> "none", detail_hashed_payload |-> "event"]
    [] modsec_type = "onlyIP" ->
         [detail_ip |-> "event", detail_hashed_rule |-> "none", detail_hashed_payload |-> "none"]
    [] modsec_type = "onlyIPAndPayload" ->
         [detail_ip |-> "event", detail_hashed_rule |-> "none", detail_hashed_payload |-> "event"]
    [] modsec_type = "onlyIPAndRegex" ->
         [detail_ip |-> "event", detail_hashed_rule |-> "event", detail_hashed_payload |-> "none"]
    [] modsec_type = "onlyRegex" ->
         [detail_ip |-> "none", detail_hashed_rule |-> "event", detail_hashed_payload |-> "none"]

\* Writer with the onlyIPAndPayload branch calling the single writer.
MutWriter(modsec_type) ==
  CASE modsec_type \in {"full", "onlyIPAndRegex"} ->
         "process_double_secrule"
    [] modsec_type \in {"onlyRegexAndPayload", "onlyPayload", "onlyIP", "onlyRegex",
                        "onlyIPAndPayload"} ->
         "process_single_secrule"

\* The writer each branch calls.
Writer(modsec_type) ==
  CASE modsec_type \in {"full", "onlyIPAndPayload", "onlyIPAndRegex"} ->
         "process_double_secrule"
    [] modsec_type \in {"onlyRegexAndPayload", "onlyPayload", "onlyIP", "onlyRegex"} ->
         "process_single_secrule"

\* Status with the else part passing 'duplicated' as well.
MutStatus(found) == IF found THEN "duplicated" ELSE "duplicated"

\* The status each branch passes: 'duplicated' when the comprehension is
\* not empty, 'waiting' in the else part.
Status(found) == IF found THEN "duplicated" ELSE "waiting"

WriterArgs(modsec_type, parsed, found) ==
  [modsec_type |-> modsec_type,
   detail_ip |->
     IF Passed(modsec_type).detail_ip = "event" THEN parsed.detail_ip ELSE None,
   detail_hashed_rule |->
     IF Passed(modsec_type).detail_hashed_rule = "event"
       THEN parsed.detail_hashed_rule ELSE None,
   detail_hashed_payload |->
     IF Passed(modsec_type).detail_hashed_payload = "event"
       THEN parsed.detail_hashed_payload ELSE None,
   status |-> Status(found),
   writer |-> Writer(modsec_type)]

\* AfterSearch with an unrecognized type returning from callback at once.
MutAfterSearch(modsec_type) ==
  IF modsec_type \notin Types THEN "consume"
  ELSE IF Writer(modsec_type) = "process_double_secrule" THEN "index_ip"
  ELSE "index"

\* Where callback goes after the search.
AfterSearch(modsec_type) ==
  IF modsec_type \notin Types THEN "ack"
  ELSE IF Writer(modsec_type) = "process_double_secrule" THEN "index_ip"
  ELSE "index"

\* seen is the number of documents in the index when the search ran;
\* redelivered tells a delivery the broker repeated after a lost connection.
Entry(c, body) ==
  [instance |-> c, body |-> body, found |-> FALSE, seen |-> 0,
   redelivered |-> FALSE, written |-> << >>, published |-> << >>,
   ops |-> << >>]

Log(c, op) == [hist EXCEPT ![delivery[c]].ops = Append(@, op)]

\* Callback with the if part of each branch going to basic_ack without a
\* writer call.
MutCallback(c, body, redelivered) ==
  /\ request_body' = [request_body EXCEPT ![c] = body]
  /\ delivery' = [delivery EXCEPT ![c] = Len(hist) + 1]
  /\ LET entry == [Entry(c, body) EXCEPT !.redelivered = redelivered]
     IN
     IF body.details = NoneObj
       THEN /\ pc' = [pc EXCEPT ![c] = "stopped"]
            /\ hist' = Append(hist, entry)
            /\ UNCHANGED args
       ELSE \E hits \in Search(store, ELASTICSEARCH_MAX_RESULT) :
              IF body.type \in Types
                THEN LET found == Found(body.type, store, hits, Parsed(body.details))
                     IN  /\ pc' = [pc EXCEPT ![c] =
                               IF found THEN "ack" ELSE AfterSearch(body.type)]
                         /\ args' = [args EXCEPT ![c] =
                               WriterArgs(body.type, Parsed(body.details), found)]
                         /\ hist' = Append(hist, [entry EXCEPT !.found = found,
                                                               !.seen = Len(store)])
                ELSE /\ pc' = [pc EXCEPT ![c] = AfterSearch(body.type)]
                     /\ args' = [args EXCEPT ![c] = NoArgs]
                     /\ hist' = Append(hist, [entry EXCEPT !.seen = Len(store)])
  /\ UNCHANGED <<store, answer, for_ip, for_chain, modsecurity_execution>>

\* callback from its first line to the selection of a branch: it parses
\* the body, then either raises on details.get (details is None) and takes
\* processor down with it, or searches the index and selects its branch.
Callback(c, body, redelivered) ==
  /\ request_body' = [request_body EXCEPT ![c] = body]
  /\ delivery' = [delivery EXCEPT ![c] = Len(hist) + 1]
  /\ LET entry == [Entry(c, body) EXCEPT !.redelivered = redelivered]
     IN
     IF body.details = NoneObj
       THEN /\ pc' = [pc EXCEPT ![c] = "stopped"]
            /\ hist' = Append(hist, entry)
            /\ UNCHANGED args
       ELSE \E hits \in Search(store, ELASTICSEARCH_MAX_RESULT) :
              /\ pc' = [pc EXCEPT ![c] = AfterSearch(body.type)]
              /\ IF body.type \in Types
                   THEN LET found == Found(body.type, store, hits, Parsed(body.details))
                        IN  /\ args' = [args EXCEPT ![c] =
                                  WriterArgs(body.type, Parsed(body.details), found)]
                            /\ hist' = Append(hist, [entry EXCEPT !.found = found,
                                                                  !.seen = Len(store)])
                   ELSE /\ args' = [args EXCEPT ![c] = NoArgs]
                        /\ hist' = Append(hist, [entry EXCEPT !.seen = Len(store)])
  /\ UNCHANGED <<store, answer, for_ip, for_chain, modsecurity_execution>>

\* The broker delivers a body to an instance that holds no unacknowledged
\* message (basic_qos(prefetch_count=1)) and callback runs on it.
Receive(c, body) ==
  /\ pc[c] = "consume"
  /\ unacked[c] = NoneObj
  /\ Len(hist) < MaxEvents
  /\ unacked' = [unacked EXCEPT ![c] = body]
  /\ Callback(c, body, FALSE)

(***************************************************************************)
(* The writers.                                                            *)
(***************************************************************************)
\* The document both writers index; for_ and real_id_relationship differ.
Document(responser_name, a, payload, for_, real_id_relationship) ==
  [responser_name |-> responser_name,
   type |-> a.modsec_type,
   for |-> for_,
   detail_ip |-> a.detail_ip,
   detail_hashed_rule |-> a.detail_hashed_rule,
   detail_hashed_payload |-> a.detail_hashed_payload,
   payload |-> dumps(payload),
   real_id_relationship |-> real_id_relationship,
   status |-> a.status]

\* AfterWriter with the publication outside the else part.
MutAfterWriterPublish(status) == "publish"

\* AfterWriter with the duplicated part returning from callback.
MutAfterWriterReturn(status) == IF status = "waiting" THEN "publish" ELSE "consume"

\* Where callback goes when its writer has returned.
AfterWriter(status) == IF status = "waiting" THEN "publish" ELSE "ack"

Wrote(c, op, id) ==
  [hist EXCEPT ![delivery[c]].ops = Append(@, op),
               ![delivery[c]].written = Append(@, id)]

\* IndexSingle with the document's own id as its real_id_relationship.
MutIndexSingle(c) ==
  /\ pc[c] = "index"
  /\ store' = Append(store,
       Document(request_body[c].responser_name, args[c], request_body[c].payload,
                None, Len(store) + 1))
  /\ modsecurity_execution' = [modsecurity_execution EXCEPT ![c] = <<Len(store) + 1>>]
  /\ pc' = [pc EXCEPT ![c] = AfterWriter(args[c].status)]
  /\ hist' = Wrote(c, "index", Len(store) + 1)
  /\ UNCHANGED <<answer, unacked, request_body, args, for_ip, for_chain, delivery>>

\* process_single_secrule: one index call, returns (_id,).
IndexSingle(c) ==
  /\ pc[c] = "index"
  /\ store' = Append(store,
       Document(request_body[c].responser_name, args[c], request_body[c].payload,
                None, NoId))
  /\ modsecurity_execution' = [modsecurity_execution EXCEPT ![c] = <<Len(store) + 1>>]
  /\ pc' = [pc EXCEPT ![c] = AfterWriter(args[c].status)]
  /\ hist' = Wrote(c, "index", Len(store) + 1)
  /\ UNCHANGED <<answer, unacked, request_body, args,
                 for_ip, for_chain, delivery>>

\* process_double_secrule, first index call: the 'ip' document.
IndexForIp(c) ==
  /\ pc[c] = "index_ip"
  /\ store' = Append(store,
       Document(request_body[c].responser_name, args[c], request_body[c].payload,
                "ip", NoId))
  /\ for_ip' = [for_ip EXCEPT ![c] = Len(store) + 1]
  /\ pc' = [pc EXCEPT ![c] = "index_chain"]
  /\ hist' = Wrote(c, "index_ip", Len(store) + 1)
  /\ UNCHANGED <<answer, unacked, request_body, args,
                 for_chain, modsecurity_execution, delivery>>

\* IndexForChain with process_double_secrule returning right after it,
\* the update call left out.
MutIndexForChain(c) ==
  /\ pc[c] = "index_chain"
  /\ store' = Append(store,
       Document(request_body[c].responser_name, args[c], request_body[c].payload,
                "chain", for_ip[c]))
  /\ for_chain' = [for_chain EXCEPT ![c] = Len(store) + 1]
  /\ modsecurity_execution' =
       [modsecurity_execution EXCEPT ![c] = <<for_ip[c], Len(store) + 1>>]
  /\ pc' = [pc EXCEPT ![c] = AfterWriter(args[c].status)]
  /\ hist' = Wrote(c, "index_chain", Len(store) + 1)
  /\ UNCHANGED <<answer, unacked, request_body, args, for_ip, delivery>>

\* process_double_secrule, second index call: the 'chain' document.
IndexForChain(c) ==
  /\ pc[c] = "index_chain"
  /\ store' = Append(store,
       Document(request_body[c].responser_name, args[c], request_body[c].payload,
                "chain", for_ip[c]))
  /\ for_chain' = [for_chain EXCEPT ![c] = Len(store) + 1]
  /\ pc' = [pc EXCEPT ![c] = "update_ip"]
  /\ hist' = Wrote(c, "index_chain", Len(store) + 1)
  /\ UNCHANGED <<answer, unacked, request_body, args,
                 for_ip, modsecurity_execution, delivery>>

\* UpdateForIp with 'for' in the partial document of the update as well.
MutUpdateForIpDoc(c) ==
  /\ pc[c] = "update_ip"
  /\ store' = [store EXCEPT ![for_ip[c]].real_id_relationship = for_chain[c],
                            ![for_ip[c]].for = "chain"]
  /\ modsecurity_execution' =
       [modsecurity_execution EXCEPT ![c] = <<for_ip[c], for_chain[c]>>]
  /\ pc' = [pc EXCEPT ![c] = AfterWriter(args[c].status)]
  /\ hist' = Log(c, "update_ip")
  /\ UNCHANGED <<answer, unacked, request_body, args, for_ip, for_chain, delivery>>

\* UpdateForIp with the update addressed to the chain document.
MutUpdateForIp(c) ==
  /\ pc[c] = "update_ip"
  /\ store' = [store EXCEPT ![for_chain[c]].real_id_relationship = for_chain[c]]
  /\ modsecurity_execution' =
       [modsecurity_execution EXCEPT ![c] = <<for_ip[c], for_chain[c]>>]
  /\ pc' = [pc EXCEPT ![c] = AfterWriter(args[c].status)]
  /\ hist' = Log(c, "update_ip")
  /\ UNCHANGED <<answer, unacked, request_body, args, for_ip, for_chain, delivery>>

\* process_double_secrule, update call and return of (ip _id, chain _id).
UpdateForIp(c) ==
  /\ pc[c] = "update_ip"
  /\ store' = [store EXCEPT ![for_ip[c]].real_id_relationship = for_chain[c]]
  /\ modsecurity_execution' =
       [modsecurity_execution EXCEPT ![c] = <<for_ip[c], for_chain[c]>>]
  /\ pc' = [pc EXCEPT ![c] = AfterWriter(args[c].status)]
  /\ hist' = Log(c, "update_ip")
  /\ UNCHANGED <<answer, unacked, request_body, args,
                 for_ip, for_chain, delivery>>

(***************************************************************************)
(* Publication and acknowledgment.                                         *)
(***************************************************************************)
\* ExecutionIds with the two elements of the returned pair exchanged.
MutExecutionIds(modsec_type, returned) ==
  CASE modsec_type \in {"full", "onlyIPAndPayload", "onlyIPAndRegex"} ->
         [execution_id |-> NoId,
          execution_id_for_ip |-> returned[2],
          execution_id_for_chain |-> returned[1]]
    [] modsec_type \in {"onlyRegexAndPayload", "onlyPayload", "onlyIP", "onlyRegex"} ->
         [execution_id |-> returned[1],
          execution_id_for_ip |-> NoId,
          execution_id_for_chain |-> NoId]

\* The three keys the else part of each branch sets on request_body.
ExecutionIds(modsec_type, returned) ==
  CASE modsec_type \in {"full", "onlyIPAndPayload", "onlyIPAndRegex"} ->
         [execution_id |-> NoId,
          execution_id_for_ip |-> returned[1],
          execution_id_for_chain |-> returned[2]]
    [] modsec_type \in {"onlyRegexAndPayload", "onlyPayload", "onlyIP", "onlyRegex"} ->
         [execution_id |-> returned[1],
          execution_id_for_ip |-> NoId,
          execution_id_for_chain |-> NoId]

\* request_body with the three keys set.
Augmented(body, ids) ==
  [responser_name |-> body.responser_name,
   type |-> body.type,
   details |-> body.details,
   payload |-> body.payload,
   execution_id |-> ids.execution_id,
   execution_id_for_ip |-> ids.execution_id_for_ip,
   execution_id_for_chain |-> ids.execution_id_for_chain]

\* The else part of a branch after its writer: set the keys, basic_publish.
Publish(c) ==
  /\ pc[c] = "publish"
  /\ LET out == Augmented(request_body[c],
                  ExecutionIds(request_body[c].type, modsecurity_execution[c]))
     IN  /\ request_body' = [request_body EXCEPT ![c] = out]
         /\ answer' = Append(answer, out)
  /\ pc' = [pc EXCEPT ![c] = "ack"]
  /\ hist' = [hist EXCEPT ![delivery[c]].ops = Append(@, "publish"),
                          ![delivery[c]].published = Append(@, Len(answer) + 1)]
  /\ UNCHANGED <<store, unacked, args, for_ip, for_chain,
                 modsecurity_execution, delivery>>

\* ch.basic_ack at the end of callback; the instance waits for the next
\* delivery.
Ack(c) ==
  /\ pc[c] = "ack"
  /\ unacked' = [unacked EXCEPT ![c] = NoneObj]
  /\ pc' = [pc EXCEPT ![c] = "consume"]
  /\ hist' = Log(c, "ack")
  /\ UNCHANGED <<store, answer, request_body, args,
                 for_ip, for_chain, modsecurity_execution, delivery>>

Next ==
  \/ \E c \in Instances, body \in Bodies : Receive(c, body)
  \/ \E c \in Instances : IndexSingle(c)
  \/ \E c \in Instances : IndexForIp(c)
  \/ \E c \in Instances : IndexForChain(c)
  \/ \E c \in Instances : UpdateForIp(c)
  \/ \E c \in Instances : Publish(c)
  \/ \E c \in Instances : Ack(c)

Spec == Init /\ [][Next]_vars

(***************************************************************************)
(* Failing calls.  No call of callback or of the writers is inside a try   *)
(* block and the entry point catches KeyboardInterrupt only: an exception  *)
(* of the Elasticsearch or of the RabbitMQ client ends the process with    *)
(* the message unacknowledged, and the broker delivers the message again   *)
(* once the consumer is started again.                                     *)
(***************************************************************************)
MaxFailures == 1

Deliveries == 1 .. Len(hist)

Count(seq, x) == Cardinality({k \in 1 .. Len(seq) : seq[k] = x})

Failed(i) ==
  Count(hist[i].ops, "fail_store") + Count(hist[i].ops, "fail_publish") > 0

Failures == Cardinality({i \in Deliveries : Failed(i)})

\* FailStore with the exception swallowed: callback goes on to basic_ack.
MutFailStore(c) ==
  /\ pc[c] \in {"index", "index_ip", "index_chain", "update_ip"}
  /\ Failures < MaxFailures
  /\ pc' = [pc EXCEPT ![c] = "ack"]
  /\ hist' = Log(c, "fail_store")
  /\ UNCHANGED <<store, answer, unacked, request_body, args,
                 for_ip, for_chain, modsecurity_execution, delivery>>

\* An index or update call of a writer raises; the call changed nothing.
FailStore(c) ==
  /\ pc[c] \in {"index", "index_ip", "index_chain", "update_ip"}
  /\ Failures < MaxFailures
  /\ pc' = [pc EXCEPT ![c] = "stopped"]
  /\ hist' = Log(c, "fail_store")
  /\ UNCHANGED <<store, answer, unacked, request_body, args,
                 for_ip, for_chain, modsecurity_execution, delivery>>

\* FailPublish with the exception swallowed: callback goes on to basic_ack.
MutFailPublish(c) ==
  /\ pc[c] = "publish"
  /\ Failures < MaxFailures
  /\ request_body' = [request_body EXCEPT ![c] =
       Augmented(request_body[c],
                 ExecutionIds(request_body[c].type, modsecurity_execution[c]))]
  /\ pc' = [pc EXCEPT ![c] = "ack"]
  /\ hist' = Log(c, "fail_publish")
  /\ UNCHANGED <<store, answer, unacked, args,
                 for_ip, for_chain, modsecurity_execution, delivery>>

\* basic_publish raises after the three keys were set on request_body.
FailPublish(c) ==
  /\ pc[c] = "publish"
  /\ Failures < MaxFailures
  /\ request_body' = [request_body EXCEPT ![c] =
       Augmented(request_body[c],
                 ExecutionIds(request_body[c].type, modsecurity_execution[c]))]
  /\ pc' = [pc EXCEPT ![c] = "stopped"]
  /\ hist' = Log(c, "fail_publish")
  /\ UNCHANGED <<store, answer, unacked, args,
                 for_ip, for_chain, modsecurity_execution, delivery>>

\* The consumer is started again after an exception ended it: main runs,
\* the broker delivers the unacknowledged message again and callback runs
\* on it.
Redeliver(c) ==
  /\ pc[c] = "stopped"
  /\ unacked[c] # NoneObj
  /\ Len(hist) < MaxEvents
  /\ UNCHANGED unacked
  /\ Callback(c, unacked[c], TRUE)

NextFail ==
  \/ Next
  \/ \E c \in Instances : FailStore(c)
  \/ \E c \in Instances : FailPublish(c)
  \/ \E c \in Instances : Redeliver(c)

SpecFail == Init /\ [][NextFail]_vars

(***************************************************************************)
(* Two consumer instances on the same queue, index and outbound queue.     *)
(***************************************************************************)
Consumers == {1, 2}

\* The bodies the two instances are fed: one combined and one single type.
RaceBodies ==
  {b \in Bodies : \/ b.type = "full" /\ b.details \in PresentDetails
                  \/ b.type = "onlyIP" /\ b.details # NoneObj}

InitMulti ==
  /\ store = << >>
  /\ answer = << >>
  /\ unacked = [c \in Consumers |-> NoneObj]
  /\ pc = [c \in Consumers |-> "consume"]
  /\ request_body = [c \in Consumers |-> NoneObj]
  /\ args = [c \in Consumers |-> NoArgs]
  /\ for_ip = [c \in Consumers |-> NoId]
  /\ for_chain = [c \in Consumers |-> NoId]
  /\ modsecurity_execution = [c \in Consumers |-> << >>]
  /\ delivery = [c \in Consumers |-> 0]
  /\ hist = << >>

NextMulti ==
  \/ \E c \in Consumers, body \in RaceBodies : Receive(c, body)
  \/ \E c \in Consumers : IndexSingle(c)
  \/ \E c \in Consumers : IndexForIp(c)
  \/ \E c \in Consumers : IndexForChain(c)
  \/ \E c \in Consumers : UpdateForIp(c)
  \/ \E c \in Consumers : Publish(c)
  \/ \E c \in Consumers : Ack(c)

SpecMulti == InitMulti /\ [][NextMulti]_vars

(***************************************************************************)
(* The classification table of the specification (section 4.1).            *)
(***************************************************************************)
TableSig(t) ==
  CASE t = "full" -> {"detail_ip", "detail_hashed_rule", "detail_hashed_payload"}
    [] t = "onlyIPAndPayload" -> {"detail_ip", "detail_hashed_payload"}
    [] t = "onlyIPAndRegex" -> {"detail_ip", "detail_hashed_rule"}
    [] t = "onlyIP" -> {"detail_ip"}
    [] t = "onlyRegexAndPayload" -> {"detail_hashed_rule", "detail_hashed_payload"}
    [] t = "onlyRegex" -> {"detail_hashed_rule"}
    [] t = "onlyPayload" -> {"detail_hashed_payload"}

TableScope(t) ==
  CASE t \in {"full", "onlyIPAndPayload", "onlyIPAndRegex"} -> "combined"
    [] t \in {"onlyIP", "onlyRegexAndPayload", "onlyRegex", "onlyPayload"} -> "single"

(***************************************************************************)
(* Reading the history.                                                    *)
(***************************************************************************)
\* The delivery was of a recognized type and got past the parsing.
Classified(i) ==
  /\ hist[i].body.type \in Types
  /\ hist[i].body.details # NoneObj

\* callback has reached its end for the delivery.
Completed(i) ==
  /\ hist[i].ops # << >>
  /\ hist[i].ops[Len(hist[i].ops)] = "ack"

\* The writer called for the delivery has returned.
WriterReturned(i) ==
  \/ Count(hist[i].ops, "index") > 0
  \/ Count(hist[i].ops, "update_ip") > 0

\* The documents written for the delivery all have the status.
Recorded(i, status) ==
  /\ hist[i].written # << >>
  /\ \A k \in 1 .. Len(hist[i].written) : store[hist[i].written[k]].status = status

\* Deliveries i and j carry the same type and the same values on the
\* dimensions significant for it.
SameKey(i, j) ==
  /\ hist[i].body.type = hist[j].body.type
  /\ \A f \in TableSig(hist[i].body.type) :
       Parsed(hist[i].body.details)[f] = Parsed(hist[j].body.details)[f]

\* The store holds a document equal to the event on the significant
\* dimensions and null on the others.
TableMatch(docs, body) ==
  \E k \in 1 .. Len(docs) :
    \A f \in Fields :
      IF f \in TableSig(body.type)
        THEN docs[k][f] = Parsed(body.details)[f]
        ELSE docs[k][f] = None

RECURSIVE WrittenUpTo(_)
WrittenUpTo(i) == IF i = 0 THEN 0 ELSE Len(hist[i].written) + WrittenUpTo(i - 1)

(***************************************************************************)
(* C1, C2: first occurrence, repetition and the duplicate lookup.          *)
(***************************************************************************)
\* C1: in a run of one instance without store or broker failure, every
\* completed delivery of a recognized type is recorded waiting and published
\* exactly once when no earlier delivery carried its type and significant
\* values, and recorded duplicated and not published when one did.
C1_FirstWaitingLaterDuplicated ==
  \A i \in Deliveries :
    (Classified(i) /\ Completed(i)) =>
      IF \E j \in 1 .. (i - 1) : Classified(j) /\ SameKey(i, j)
        THEN Recorded(i, "duplicated") /\ Count(hist[i].ops, "publish") = 0
        ELSE Recorded(i, "waiting") /\ Count(hist[i].ops, "publish") = 1

\* C2: when callback has searched for an event of a recognized type and has
\* not written yet, its lookup result is true exactly when some stored
\* document equals the event on every significant dimension and is null on
\* every other one.
C2_LookupIffStoredMatch ==
  \A i \in Deliveries :
    (Classified(i) /\ hist[i].ops = << >>) =>
      (hist[i].found <=> TableMatch(store, hist[i].body))

(***************************************************************************)
(* C3: the classifier.                                                     *)
(***************************************************************************)
\* The fields a branch compares with the event, and those it passes on.
EqFields(t) == {f \in Fields : Filter(t)[f] = "eq"}
NoneFields(t) == {f \in Fields : Filter(t)[f] = "none"}
PassedFields(t) == {f \in Fields : Passed(t)[f] = "event"}

InWriter(c) == pc[c] \in {"index", "index_ip", "index_chain", "update_ip"}

\* The branches of callback against the table: what each branch compares,
\* tests for null and passes on, and which writer it calls.
BranchesMatchTable ==
  \A t \in Types :
    /\ EqFields(t) = TableSig(t)
    /\ NoneFields(t) = Fields \ TableSig(t)
    /\ PassedFields(t) = TableSig(t)
    /\ (Writer(t) = "process_double_secrule") <=> (TableScope(t) = "combined")
    /\ (Writer(t) = "process_single_secrule") <=> (TableScope(t) = "single")
    /\ (TableScope(t) = "combined") <=>
         ("detail_ip" \in TableSig(t) /\ Cardinality(TableSig(t)) >= 2)

\* C3: for each of the seven types the fields compared by equality in the
\* lookup and the fields passed from the event to the writer are the
\* significant dimensions of the table, the other fields are tested for
\* null and passed as None, the writer is the pair writer exactly for the
\* combined types, and combined means ip together with another dimension;
\* every writer call in progress has these arguments and this writer.
C3_ClassifierMatchesTable ==
  /\ BranchesMatchTable
  /\ \A c \in Instances :
       InWriter(c) =>
         /\ request_body[c].type \in Types
         /\ args[c].modsec_type = request_body[c].type
         /\ \A f \in Fields :
              args[c][f] =
                IF f \in TableSig(request_body[c].type)
                  THEN Parsed(request_body[c].details)[f]
                  ELSE None
         /\ (pc[c] = "index") <=> (TableScope(request_body[c].type) = "single")
         /\ (args[c].writer = "process_double_secrule") <=>
              (TableScope(request_body[c].type) = "combined")

\* An event with every dimension present is in the pair writer with its
\* payload hash dropped.
C3_Witness ==
  \E c \in Instances :
    /\ pc[c] = "index_chain"
    /\ request_body[c].type = "onlyIPAndRegex"
    /\ request_body[c].details.hashed_payload # None
    /\ args[c].detail_hashed_payload = None
    /\ args[c].detail_ip = request_body[c].details.ip.source_ip

(***************************************************************************)
(* C4, C5: the forwarder.                                                  *)
(***************************************************************************)
\* C4: no delivery is published more than once, a published delivery has
\* written documents of status waiting only, a completed delivery was
\* published exactly when its documents have status waiting, and the answer
\* queue holds nothing but these publications.
C4_PublishIffWaiting ==
  /\ \A i \in Deliveries :
       /\ Count(hist[i].ops, "publish") <= 1
       /\ Len(hist[i].published) = Count(hist[i].ops, "publish")
       /\ Count(hist[i].ops, "publish") = 1 => Recorded(i, "waiting")
       /\ Recorded(i, "duplicated") => Count(hist[i].ops, "publish") = 0
       /\ Completed(i) => (Count(hist[i].ops, "publish") = 1 <=> Recorded(i, "waiting"))
  /\ Len(answer) = Cardinality({i \in Deliveries : hist[i].published # << >>})

\* A first occurrence was published and its repetition was not.
C4_Witness ==
  \E i, j \in Deliveries :
    /\ Completed(i) /\ Recorded(i, "waiting") /\ Count(hist[i].ops, "publish") = 1
    /\ Completed(j) /\ Recorded(j, "duplicated") /\ Count(hist[j].ops, "publish") = 0

\* Message m is the body of delivery i plus the ids of the documents
\* written for it, in the shape of its scope.
Shape(m, i) ==
  LET b == hist[i].body
      w == hist[i].written
  IN  /\ m.responser_name = b.responser_name
      /\ m.type = b.type
      /\ m.details = b.details
      /\ m.payload = b.payload
      /\ IF TableScope(b.type) = "single"
           THEN /\ Len(w) = 1
                /\ m.execution_id = w[1]
                /\ m.execution_id # NoId
                /\ store[w[1]].for = None
                /\ m.execution_id_for_ip = NoId
                /\ m.execution_id_for_chain = NoId
           ELSE /\ Len(w) = 2
                /\ m.execution_id = NoId
                /\ m.execution_id_for_ip = w[1]
                /\ m.execution_id_for_ip # NoId
                /\ store[w[1]].for = "ip"
                /\ m.execution_id_for_chain = w[2]
                /\ m.execution_id_for_chain # NoId
                /\ store[w[2]].for = "chain"

\* C5: every message on the answer queue was published for one delivery of
\* a recognized type and has the shape of that delivery's scope: the single
\* document's id in execution_id and the other two null, or execution_id
\* null and the ids of the ip and the chain document in the other two.
C5_OutboundShape ==
  \A k \in 1 .. Len(answer) :
    \E i \in Deliveries :
      /\ Classified(i)
      /\ hist[i].published = <<k>>
      /\ Shape(answer[k], i)

\* Both shapes are on the answer queue.
C5_Witness ==
  \E k, l \in 1 .. Len(answer) :
    /\ answer[k].execution_id # NoId
    /\ answer[l].execution_id = NoId
    /\ answer[l].execution_id_for_ip # answer[l].execution_id_for_chain

(***************************************************************************)
(* C6, C7: the writers.                                                    *)
(***************************************************************************)
\* Every document of the index was written for exactly one delivery: the
\* deliveries wrote as many documents as the index holds, and each document
\* of the index is among them.
AllWrittenByDeliveries ==
  /\ Len(store) = WrittenUpTo(Len(hist))
  /\ \A k \in 1 .. Len(store) :
       \E i \in Deliveries :
         \E l \in 1 .. Len(hist[i].written) : hist[i].written[l] = k

\* C6: once the writer of a single-scope delivery has returned, exactly one
\* document was created for the delivery, with no scope role and no link;
\* and no document of the index without scope role has a link.
C6_SingleWriter ==
  /\ \A i \in Deliveries :
       (Classified(i) /\ TableScope(hist[i].body.type) = "single"
          /\ WriterReturned(i)) =>
         /\ Len(hist[i].written) = 1
         /\ store[hist[i].written[1]].for = None
         /\ store[hist[i].written[1]].real_id_relationship = NoId
         /\ store[hist[i].written[1]].type = hist[i].body.type
  /\ AllWrittenByDeliveries
  /\ \A k \in 1 .. Len(store) :
       store[k].for = None => store[k].real_id_relationship = NoId

\* A single-scope delivery has completed next to a linked pair.
C6_Witness ==
  /\ \E i \in Deliveries :
       /\ Classified(i)
       /\ TableScope(hist[i].body.type) = "single"
       /\ Completed(i)
       /\ store[hist[i].written[1]].for = None
  /\ \E k \in 1 .. Len(store) : store[k].real_id_relationship # NoId

IsPrefix(s, t) ==
  /\ Len(s) <= Len(t)
  /\ \A k \in 1 .. Len(s) : s[k] = t[k]

\* C7: the operations of a combined-scope delivery are, in this order,
\* the creation of the ip document with no link, the creation of the chain
\* document linked to the ip document, and the update of the ip document's
\* link to the chain document; from the update on exactly two documents
\* were created for the delivery, they link to each other and they agree on
\* type, on the three identity fields and on status.
C7_PairWriter ==
  /\ \A i \in Deliveries :
       (Classified(i) /\ TableScope(hist[i].body.type) = "combined") =>
         LET o == hist[i].ops
             w == hist[i].written
         IN  /\ \/ IsPrefix(o, <<"index_ip", "index_chain", "update_ip", "publish", "ack">>)
                \/ IsPrefix(o, <<"index_ip", "index_chain", "update_ip", "ack">>)
             /\ Len(o) = 0 => Len(w) = 0
             /\ Len(o) = 1 =>
                  /\ Len(w) = 1
                  /\ store[w[1]].for = "ip"
                  /\ store[w[1]].real_id_relationship = NoId
             /\ Len(o) = 2 =>
                  /\ Len(w) = 2
                  /\ store[w[1]].for = "ip"
                  /\ store[w[1]].real_id_relationship = NoId
                  /\ store[w[2]].for = "chain"
                  /\ store[w[2]].real_id_relationship = w[1]
             /\ Len(o) >= 3 =>
                  /\ Len(w) = 2
                  /\ w[1] # w[2]
                  /\ store[w[1]].for = "ip"
                  /\ store[w[2]].for = "chain"
                  /\ store[w[1]].real_id_relationship = w[2]
                  /\ store[w[2]].real_id_relationship = w[1]
                  /\ store[w[1]].type = store[w[2]].type
                  /\ store[w[1]].status = store[w[2]].status
                  /\ \A f \in Fields : store[w[1]][f] = store[w[2]][f]
  /\ AllWrittenByDeliveries

\* A pair was written for an event with every dimension present.
C7_Witness ==
  \E i \in Deliveries :
    /\ Classified(i)
    /\ hist[i].body.type = "onlyIPAndPayload"
    /\ hist[i].body.details \in PresentDetails
    /\ Completed(i)
    /\ store[hist[i].written[1]].real_id_relationship = hist[i].written[2]

(***************************************************************************)
(* C8: acknowledgment.                                                     *)
(***************************************************************************)
\* The operations of a completed delivery of a recognized type.
Writes(t) ==
  IF TableScope(t) = "combined"
    THEN <<"index_ip", "index_chain", "update_ip">>
    ELSE <<"index">>

Pipeline(t, found) ==
  Writes(t) \o (IF found THEN << >> ELSE <<"publish">>) \o <<"ack">>

\* C8: a delivery is acknowledged at most once and as its last operation;
\* when a delivery of a recognized type is acknowledged, all its writes and,
\* on the waiting branch, its publication came before, and its documents
\* are in the index; an instance that is back waiting for deliveries has
\* acknowledged its last delivery, and holds no unacknowledged message
\* only then.
C8_AckOnceAfterPipeline ==
  /\ \A i \in Deliveries :
       /\ Count(hist[i].ops, "ack") <= 1
       /\ Count(hist[i].ops, "ack") = 1 =>
            /\ Completed(i)
            /\ Classified(i) =>
                 /\ hist[i].ops = Pipeline(hist[i].body.type, hist[i].found)
                 /\ Len(hist[i].written) =
                      (IF TableScope(hist[i].body.type) = "combined" THEN 2 ELSE 1)
                 /\ Recorded(i, Status(hist[i].found))
  /\ \A c \in Instances :
       delivery[c] # 0 =>
         /\ pc[c] = "consume" => Completed(delivery[c])
         /\ Completed(delivery[c]) <=> unacked[c] = NoneObj

\* A waiting and a duplicated delivery were both acknowledged.
C8_Witness ==
  \E i, j \in Deliveries :
    /\ Classified(i) /\ Completed(i) /\ ~hist[i].found
    /\ Classified(j) /\ Completed(j) /\ hist[j].found
    /\ \A c \in Instances : unacked[c] = NoneObj

(***************************************************************************)
(* C9, C10: malformed messages.                                            *)
(***************************************************************************)
\* C9: no delivery of an unrecognized type ends as a completed pipeline
\* that wrote nothing, published nothing and acknowledged the message.
C9_UnrecognizedTypeNotSilent ==
  \A i \in Deliveries :
    hist[i].body.type \notin Types =>
      ~(Completed(i) /\ hist[i].written = << >> /\ hist[i].published = << >>)

\* C10: no message, whatever its type and details, stops the consumer loop
\* of an instance.
C10_ConsumerLoopSurvives ==
  \A c \in Instances : pc[c] # "stopped"

(***************************************************************************)
(* C11: two instances racing on the same key.                              *)
(***************************************************************************)
\* Deliveries i and j went to different instances, carry the same key, and
\* both searched the same index contents: neither instance had written
\* anything when the other searched.
Raced(i, j) ==
  /\ i # j
  /\ hist[i].instance # hist[j].instance
  /\ Classified(i) /\ Classified(j)
  /\ SameKey(i, j)
  /\ hist[i].seen = hist[j].seen

\* C11: with two instances on one index, when two deliveries of the same
\* type and significant values are both looked up before either instance
\* writes, and the index held no matching document (and fitted the result
\* window), both lookups find nothing, both deliveries are recorded waiting
\* and both are published: nothing between the lookup and the write makes
\* the second instance notice the first.
C11_RaceBothWaitingBothPublished ==
  \A i \in Deliveries : \A j \in Deliveries :
    (/\ Raced(i, j)
     /\ hist[i].seen <= ELASTICSEARCH_MAX_RESULT
     /\ ~TableMatch(SubSeq(store, 1, hist[i].seen), hist[i].body)) =>
      /\ ~hist[i].found
      /\ hist[i].written # << >> => Recorded(i, "waiting")
      /\ Completed(i) => Len(hist[i].published) = 1

\* Two raced deliveries of a combined type have both completed, each with
\* its own pair recorded waiting and its own outbound message.
C11_Witness ==
  \E i \in Deliveries : \E j \in Deliveries :
    /\ Raced(i, j)
    /\ hist[i].body.type = "full"
    /\ Completed(i) /\ Completed(j)
    /\ ~hist[i].found /\ ~hist[j].found
    /\ Recorded(i, "waiting") /\ Recorded(j, "waiting")
    /\ Len(hist[i].written) = 2 /\ Len(hist[j].written) = 2
    /\ Len(hist[i].published) = 1 /\ Len(hist[j].published) = 1
    /\ hist[i].published # hist[j].published
    /\ Len(answer) = 2

(***************************************************************************)
(* C12: one message at a time, in delivery order.                          *)
(***************************************************************************)
\* The deliveries made to instance c, in delivery order.
DeliveriesOf(c) == {i \in Deliveries : hist[i].instance = c}

PartialWrite(i) ==
  /\ Count(hist[i].ops, "fail_store") > 0
  /\ hist[i].written # << >>

\* The combined write of the delivery is between its first index call and
\* the return of its update call.
PairInProgress(i) ==
  /\ delivery[hist[i].instance] = i
  /\ pc[hist[i].instance] \in {"index_chain", "update_ip"}

\* C13: when the second or third store call of a combined write raises, the
\* documents already written stay as they are (the ip document with a null
\* link; when only the update raised, the chain document pointing at it),
\* the delivery publishes nothing and is not acknowledged; and an ip
\* document with a null link is the first document of a delivery whose
\* combined write failed in this way or is still in progress.
C13_PartialPairStays ==
  /\ \A i \in Deliveries :
       PartialWrite(i) =>
         /\ \A k \in 1 .. Len(hist[i].written) : hist[i].written[k] <= Len(store)
         /\ store[hist[i].written[1]].for = "ip"
         /\ store[hist[i].written[1]].real_id_relationship = NoId
         /\ Len(hist[i].written) = 2 =>
              /\ store[hist[i].written[2]].for = "chain"
              /\ store[hist[i].written[2]].real_id_relationship = hist[i].written[1]
         /\ hist[i].published = << >>
         /\ Count(hist[i].ops, "publish") = 0
         /\ Count(hist[i].ops, "ack") = 0
         /\ \A m \in 1 .. Len(answer) :
              /\ answer[m].execution_id_for_ip # hist[i].written[1]
              /\ answer[m].execution_id # hist[i].written[1]
  /\ \A k \in 1 .. Len(store) :
       (store[k].for = "ip" /\ store[k].real_id_relationship = NoId) =>
         \E i \in Deliveries :
           /\ hist[i].written # << >>
           /\ hist[i].written[1] = k
           /\ PartialWrite(i) \/ PairInProgress(i)

\* The update call of a combined write raised, the consumer was started
\* again and went through the redelivered message to its acknowledgment:
\* the two documents of the failed write are still there, the ip one
\* unlinked.
C13_Witness ==
  \E i \in Deliveries :
    /\ PartialWrite(i)
    /\ Len(hist[i].written) = 2
    /\ store[hist[i].written[1]].real_id_relationship = NoId
    /\ store[hist[i].written[2]].real_id_relationship = hist[i].written[1]
    /\ i < Len(hist)
    /\ hist[i + 1].redelivered
    /\ Completed(i + 1)

(***************************************************************************)
(* C14: a publication that fails after the writer succeeded.               *)
(***************************************************************************)
\* basic_publish raised for the delivery.
PublishFailed(i) == Count(hist[i].ops, "fail_publish") > 0

\* The ids the outbound messages carry.
PublishedIds ==
  {answer[m].execution_id : m \in 1 .. Len(answer)}
    \cup {answer[m].execution_id_for_ip : m \in 1 .. Len(answer)}
    \cup {answer[m].execution_id_for_chain : m \in 1 .. Len(answer)}

\* C14: when basic_publish raises after the writer returned for a first
\* occurrence, the documents of the delivery are in the index with status
\* waiting, their ids are in no outbound message, now or at any later step
\* of the consumer, and the delivery is not acknowledged.
C14_PublishFailureLeavesWaiting ==
  \A i \in Deliveries :
    PublishFailed(i) =>
      /\ ~hist[i].found
      /\ WriterReturned(i)
      /\ Recorded(i, "waiting")
      /\ \A k \in 1 .. Len(hist[i].written) :
           /\ hist[i].written[k] <= Len(store)
           /\ hist[i].written[k] \notin PublishedIds
      /\ hist[i].published = << >>
      /\ Count(hist[i].ops, "ack") = 0
      /\ hist[i].ops[Len(hist[i].ops)] = "fail_publish"

\* basic_publish raised for a delivery; the consumer was started again, the
\* message was redelivered and went to its acknowledgment, and the outbound
\* queue is not empty: the waiting documents of the failed delivery are
\* named by no outbound message.
C14_Witness ==
  \E i \in Deliveries :
    /\ PublishFailed(i)
    /\ Recorded(i, "waiting")
    /\ i + 1 < Len(hist)
    /\ hist[i + 1].redelivered
    /\ Completed(i + 1)
    /\ Len(answer) > 0
    /\ \A k \in 1 .. Len(hist[i].written) : hist[i].written[k] \notin PublishedIds

(***************************************************************************)
(* C15: redelivery after a stop between a write and the acknowledgment.    *)
(***************************************************************************)
\* Delivery j repeats the message of delivery j - 1, which ended by an
\* exception after at least one document was written for it.
RedeliveryAfterWrite(j) ==
  /\ j > 1
  /\ hist[j].redelivered
  /\ hist[j - 1].written # << >>
  /\ Classified(j)

\* C15: a message redelivered after its earlier delivery had written at
\* least one document is found to be a duplicate, is recorded duplicated,
\* is not published, and is acknowledged.
C15_RedeliveryIsDuplicate ==
  \A j \in Deliveries :
    RedeliveryAfterWrite(j) =>
      /\ hist[j].found
      /\ hist[j].written # << >> => Recorded(j, "duplicated")
      /\ hist[j].published = << >>
      /\ Count(hist[j].ops, "publish") = 0

\* The same for the redeliveries whose search fitted the result window.
RedeliveryInsideWindowIsDuplicate ==
  \A j \in Deliveries :
    (RedeliveryAfterWrite(j) /\ hist[j].seen <= ELASTICSEARCH_MAX_RESULT) =>
      /\ hist[j].found
      /\ hist[j].written # << >> => Recorded(j, "duplicated")
      /\ hist[j].published = << >>
      /\ Count(hist[j].ops, "publish") = 0

(***************************************************************************)
(* C16: the lookup and the size of the index.                              *)
(***************************************************************************)
\* The documents the index held when delivery j was searched.  Documents
\* are only appended and only real_id_relationship is ever updated, so the
\* fields the lookup reads are those of the present store.
IndexAtSearch(j) == SubSeq(store, 1, hist[j].seen)

\* C16: whenever the index holds a matching document at the time of the
\* search, however many documents it holds, the event is found to be a
\* duplicate.
C16_MatchAnywhereIsFound ==
  \A j \in Deliveries :
    (Classified(j) /\ TableMatch(IndexAtSearch(j), hist[j].body)) =>
      hist[j].found

\* The same for the searches made while the index held no more documents
\* than the size the search asks for.
MatchInsideWindowIsFound ==
  \A j \in Deliveries :
    (/\ Classified(j)
     /\ hist[j].seen <= ELASTICSEARCH_MAX_RESULT
     /\ TableMatch(IndexAtSearch(j), hist[j].body)) =>
      hist[j].found

(***************************************************************************)
(* C17: what a step may change in the index.                               *)
(***************************************************************************)
\* Document k is the same in the next state but for real_id_relationship.
SameButLink(k) ==
  /\ store'[k].responser_name = store[k].responser_name
  /\ store'[k].type = store[k].type
  /\ store'[k].for = store[k].for
  /\ store'[k].detail_ip = store[k].detail_ip
  /\ store'[k].detail_hashed_rule = store[k].detail_hashed_rule
  /\ store'[k].detail_hashed_payload = store[k].detail_hashed_payload
  /\ store'[k].payload = store[k].payload
  /\ store'[k].status = store[k].status

\* The link of document k goes from null to the id of the chain document
\* that the same writer call indexed right after it.
LinkedToOwnChain(k) ==
  /\ store[k].for = "ip"
  /\ store[k].real_id_relationship = NoId
  /\ store'[k].real_id_relationship \in 1 .. Len(store)
  /\ store[store'[k].real_id_relationship].for = "chain"
  /\ store[store'[k].real_id_relationship].real_id_relationship = k
  /\ \E c \in DOMAIN pc :
       /\ pc[c] = "update_ip"
       /\ hist[delivery[c]].written = <<k, store'[k].real_id_relationship>>

\* C17: no step removes a document or changes a field of a document other
\* than real_id_relationship, and real_id_relationship changes only on an
\* ip document, from null to the id of the chain document of its own
\* writer call - hence at most once.
C17_OnlyLinkChanges ==
  [][/\ Len(store') >= Len(store)
     /\ \A k \in 1 .. Len(store) :
          /\ SameButLink(k)
          /\ store'[k].real_id_relationship # store[k].real_id_relationship =>
               LinkedToOwnChain(k)]_vars

\* An ip document has been linked to its chain document and documents of a
\* later delivery were appended after the two.
C17_Witness ==
  \E k \in 1 .. Len(store) :
    /\ store[k].for = "ip"
    /\ store[k].real_id_relationship = k + 1
    /\ store[k + 1].for = "chain"
    /\ store[k + 1].real_id_relationship = k
    /\ Len(store) > k + 1

(***************************************************************************)
(* C18: what the documents hold of the event.                              *)
(***************************************************************************)
\* C18: every document written for a delivery of a recognized type holds
\* the event's own value on each dimension significant for the type and
\* null on each of the others, whatever the event carried there; it holds
\* the event's type.
C18_StoredDimensions ==
  \A i \in Deliveries :
    Classified(i) =>
      \A k \in 1 .. Len(hist[i].written) :
        /\ hist[i].written[k] <= Len(store)
        /\ store[hist[i].written[k]].type = hist[i].body.type
        /\ \A f \in Fields :
             IF f \in TableSig(hist[i].body.type)
               THEN store[hist[i].written[k]][f] = Parsed(hist[i].body.details)[f]
               ELSE store[hist[i].written[k]][f] = None

\* An onlyIP event that carried a hashed rule and a hashed payload has its
\* document, with the ip stored and the two other dimensions null; and an
\* onlyIPAndRegex event that carried a hashed payload has its two documents
\* with the payload dimension null.
C18_Witness ==
  /\ \E i \in Deliveries :
       /\ hist[i].body.type = "onlyIP"
       /\ hist[i].body.details \in PresentDetails
       /\ Len(hist[i].written) = 1
       /\ store[hist[i].written[1]].detail_ip = hist[i].body.details.ip.source_ip
       /\ store[hist[i].written[1]].detail_hashed_rule = None
       /\ store[hist[i].written[1]].detail_hashed_payload = None
  /\ \E i \in Deliveries :
       /\ hist[i].body.type = "onlyIPAndRegex"
       /\ hist[i].body.details \in PresentDetails
       /\ Len(hist[i].written) = 2
       /\ store[hist[i].written[2]].detail_hashed_rule = hist[i].body.details.hashed_rule
       /\ store[hist[i].written[2]].detail_hashed_payload = None

(***************************************************************************)
(* C19: the documents an outbound message names.                           *)
(***************************************************************************)
\* The documents outbound message m names are in the index with status
\* waiting; for a combined type they are an ip and a chain document that
\* hold each other's id.
NamedDocumentsReady(m) ==
  IF TableScope(answer[m].type) = "combined"
    THEN /\ answer[m].execution_id_for_ip \in 1 .. Len(store)
         /\ answer[m].execution_id_for_chain \in 1 .. Len(store)
         /\ store[answer[m].execution_id_for_ip].status = "waiting"
         /\ store[answer[m].execution_id_for_chain].status = "waiting"
         /\ store[answer[m].execution_id_for_ip].for = "ip"
         /\ store[answer[m].execution_id_for_chain].for = "chain"
         /\ store[answer[m].execution_id_for_ip].real_id_relationship =
              answer[m].execution_id_for_chain
         /\ store[answer[m].execution_id_for_chain].real_id_relationship =
              answer[m].execution_id_for_ip
    ELSE /\ answer[m].execution_id \in 1 .. Len(store)
         /\ store[answer[m].execution_id].status = "waiting"

\* C19: from the moment an outbound message is on the queue, the documents
\* it names exist with status waiting and, for a combined type, reference
\* each other.
C19_PublishedAfterWritten ==
  \A m \in 1 .. Len(answer) : NamedDocumentsReady(m)

\* A combined message has just been published (its delivery is not yet
\* acknowledged) and a single one was published before it.
C19_Witness ==
  /\ \E c \in Instances :
       /\ pc[c] = "ack"
       /\ hist[delivery[c]].published = <<Len(answer)>>
       /\ TableScope(answer[Len(answer)].type) = "combined"
  /\ \E m \in 1 .. Len(answer) : TableScope(answer[m].type) = "single"

(***************************************************************************)
(* C20: what a duplicate is a duplicate of.                                *)
(***************************************************************************)
\* The index held, when delivery j was searched, a document written for an
\* event of the type of j with the values of j on every dimension
\* significant for the type.
EarlierOfSameTypeAndKey(j) ==
  \E k \in 1 .. hist[j].seen :
    /\ store[k].type = hist[j].body.type
    /\ \A f \in TableSig(hist[j].body.type) :
         store[k][f] = Parsed(hist[j].body.details)[f]

\* C20: an event of a recognized type, null or missing significant fields
\* included, is found to be a duplicate only if the index held a document
\* of its own type with its values on every significant dimension.
C20_DuplicateOnlyOfSameType ==
  \A j \in Deliveries :
    (Classified(j) /\ hist[j].found) => EarlierOfSameTypeAndKey(j)

\* The same while every delivery so far carried all three dimensions.
DuplicateOnlyOfSameTypeWhenPresent ==
  (\A i \in Deliveries : hist[i].body.details \in PresentDetails) =>
    \A j \in Deliveries :
      (Classified(j) /\ hist[j].found) => EarlierOfSameTypeAndKey(j)

(***************************************************************************)
(* C21: every processed event leaves its documents.                        *)
(***************************************************************************)
\* The number of documents a writer call indexes for the type.
RecordsFor(t) == IF TableScope(t) = "combined" THEN 2 ELSE 1

====
